---- MODULE Spec2Model ----
(***************************************************************************)
(* Model of streamlit_app.py: a thermostat simulated under three control   *)
(* strategies (On-Off, PID, Q-Learning) and scored by tracking area.       *)
(*                                                                         *)
(* Numbers.  The program computes in floating point; the model computes in *)
(* exact decimal fixed point:                                              *)
(*   temperatures, band, PID output      : ticks of 1/TempScale  degC      *)
(*   heater_power, heat_loss             : ticks per minute                *)
(*   time                                : 1/TimeScale minute              *)
(*   PID gains                           : 1/GainScale                     *)
(*   integral_error                      : 1/(10*TempScale) degC*minute    *)
(*   q_table entries                     : 1/QScale                        *)
(*   areas                               : 1/(2*TempScale*TimeScale)       *)
(*                                         degC*minute                     *)
(* Products that do not fit the grid are rounded to the nearest tick.      *)
(*                                                                         *)
(* Callers.  run_on_off_simulation, run_q_learning_simulation and          *)
(* run_pid_simulation are module-level functions.  The model lets a client *)
(* call the selected ones in any order, up to MaxCalls times in one        *)
(* execution of the module; the main app (lines 179-207), which calls each *)
(* selected strategy once, is one of these behaviours.                     *)
(*                                                                         *)
(* Horizons.  Runs of On-Off and PID alone last whole minutes, as the      *)
(* sidebar allows.  Runs that involve Q-Learning, whose every training     *)
(* step branches on the explored action, last a few timesteps.             *)
(***************************************************************************)
EXTENDS Integers, Sequences, FiniteSets, TLC

\* ------------------------------------------------------------------ units
TempScale == 10000
TimeScale == 100
GainScale == 1000
QScale == 10000

\* ----------------------------------------------------------------- bounds
MaxCalls == 3      \* strategy calls made by one client of the module
MaxQRuns == 2      \* Q-Learning runs among those calls
MaxMinutes == 2    \* longest horizon, in whole minutes, of On-Off/PID runs
MaxTenths == 3     \* longest horizon, in tenths of a minute, with Q-Learning
MaxEpisodes == 2   \* most training episodes
MaxSamples == 100  \* temperature samples handed to get_state
MaxLen == 3        \* longest trajectory handed to the metrics functions

\* ------------------------------------------------------ program constants
num_states == 41
num_actions == 2
learning_rate == 100         \* 0.1  in 1/GainScale
discount_factor == 950       \* 0.95 in 1/GainScale
exploration_rate == 100      \* 0.1  in 1/GainScale
TimeStep == 10               \* the literal 0.1 (minute) in 1/TimeScale
DefaultMinutes == 60         \* the default of simulation_minutes

\* ---------------------------------------------------------- arithmetic
Abs(x) == IF x < 0 THEN -x ELSE x
pymax(a, b) == IF b > a THEN b ELSE a
pymin(a, b) == IF b < a THEN b ELSE a

\* int(n/d): Python's int() truncates toward zero (d > 0)
pyint(n, d) == IF n >= 0 THEN n \div d ELSE -((-n) \div d)

\* n/d rounded to the nearest integer (d > 0)
Round(n, d) == (2 * n + d) \div (2 * d)

\* a*b/c rounded to the nearest integer, computed without forming a*b
MulDiv(a, b, c) == (a \div c) * b + Round((a % c) * b, c)

\* x * 0.1 for a per-minute rate x, giving the change over one timestep
Times01(x) == Round(x * TimeStep, TimeScale)

Deg(n) == n * TempScale
HalfDegree == TempScale \div 2

\* faulty variant: includes the endpoint
arange_len_inclusive(start, stop, step) ==
    pymax(0, ((stop - start) \div step) + 1)

\* np.arange(start, stop, step): ceil((stop - start) / step) values
arange_len(start, stop, step) == pymax(0, -((start - stop) \div step))
arange(start, stop, step) ==
    [i \in 1..arange_len(start, stop, step) |-> start + (i - 1) * step]

\* ------------------------------------------------------------- state
VARIABLES
    \* configuration (lines 12-31), fixed for one execution of the module
    initial_room_temperature, thermostat_setting, heater_power, heat_loss,
    simulation_minutes, thermostat_sensitivity, episodes, Kp, Ki, Kd,
    simulation_type,
    \* module-level state
    q_table,
    \* control: the function being executed and the calls made so far
    pc, calls,
    \* locals of the running strategy function
    time, room_temperatures, room_temperature, heater_status,
    idx, episode, state, action, reward,
    integral_error, previous_error, heater_output,
    \* what the finished calls returned, and the main app's metrics
    returned, metrics, area

config == <<initial_room_temperature, thermostat_setting, heater_power,
            heat_loss, simulation_minutes, thermostat_sensitivity, episodes,
            Kp, Ki, Kd, simulation_type>>
locals == <<time, room_temperatures, room_temperature, heater_status,
            idx, episode, state, action, reward,
            integral_error, previous_error, heater_output>>
vars == <<config, q_table, pc, calls, locals, returned, metrics, area>>

States == 0..(num_states - 1)
Actions == 0..(num_actions - 1)
Strategies == {"On-Off", "Q-Learning", "PID"}

\* np.zeros((num_states, num_actions))
zeros == [s \in States |-> [a \in Actions |-> 0]]

\* numpy indexing of an axis of length num_states: a negative index counts
\* from the end
NpIndex(i) == IF i < 0 THEN i + num_states ELSE i

\* an index numpy accepts on an axis of length n; any other raises IndexError
NpValid(i, n) == -n <= i /\ i < n

\* ------------------------------------------------------ helper functions
\* faulty variant: wraps around instead of saturating
get_state_wrap(temperature) ==
    pyint((temperature - Deg(10)) % (num_states * HalfDegree), HalfDegree)

\* faulty variant: forgets the lower clamp
get_state_nomax(temperature) ==
    pyint(pymin(40 * HalfDegree, temperature - Deg(10)), HalfDegree)

\* int(min(40, max(0, (temperature - 10) / 0.5))), the quotient kept as a
\* numerator over HalfDegree until int() truncates it
get_state(temperature) ==
    pyint(pymin(40 * HalfDegree, pymax(0, temperature - Deg(10))), HalfDegree)

\* faulty variant: the last index holding the maximum
argmax_last(row) ==
    CHOOSE a \in Actions :
        /\ \A b \in Actions : row[b] <= row[a]
        /\ \A b \in Actions : b > a => row[b] < row[a]

\* np.argmax(q_table[state, :]): the first index holding the maximum
argmax(row) ==
    CHOOSE a \in Actions :
        /\ \A b \in Actions : row[b] <= row[a]
        /\ \A b \in Actions : b < a => row[b] < row[a]

\* np.max(q_table[state, :])
npmax(row) == row[argmax(row)]

\* faulty variant: draws the explored action from one value too many
get_action_wide(st, q, explore, choice) ==
    IF explore THEN choice + 1 ELSE argmax(q[NpIndex(st)])

\* epsilon-greedy: explore says whether np.random.uniform(0, 1) fell below
\* exploration_rate, choice is what np.random.choice(num_actions) drew
get_action(st, q, explore, choice) ==
    IF explore THEN choice ELSE argmax(q[NpIndex(st)])

\* faulty variant: tests the band strictly
get_reward_strict(st, act, setting) ==
    LET state_temp == Deg(10) + st * HalfDegree IN
    IF Abs(state_temp - setting) < HalfDegree THEN 10
    ELSE IF act = 1 /\ state_temp > setting + HalfDegree THEN -10
    ELSE IF act = 0 /\ state_temp < setting - HalfDegree THEN -5
    ELSE -1

get_reward(st, act, setting) ==
    LET state_temp == Deg(10) + st * HalfDegree IN
    IF Abs(state_temp - setting) <= HalfDegree THEN 10
    ELSE IF act = 1 /\ state_temp > setting + HalfDegree THEN -10
    ELSE IF act = 0 /\ state_temp < setting - HalfDegree THEN -5
    ELSE -1

\* ----------------------------------------------------------- metrics
\* The loops over range(1, len(time)) are sums; they are evaluated by halving
\* the index range, which keeps the evaluation shallow on long trajectories.

\* faulty variant: the signed deviation
area_between_term_signed(i, t, temps, set_temp) ==
    2 * (temps[i] - set_temp) * (t[i] - t[i - 1])

\* |T[i] - set| * dt for the 1-based sample i >= 2
area_between_term(i, t, temps, set_temp) ==
    2 * Abs(temps[i] - set_temp) * (t[i] - t[i - 1])

RECURSIVE area_between_from(_, _, _, _, _)
area_between_from(i, j, t, temps, set_temp) ==
    IF i > j THEN 0
    ELSE IF i = j THEN area_between_term(i, t, temps, set_temp)
    ELSE LET mid == (i + j) \div 2
         IN  area_between_from(i, mid, t, temps, set_temp)
             + area_between_from(mid + 1, j, t, temps, set_temp)

\* faulty variant: weighs every sample, the first included, by a fixed 0.1
RECURSIVE area_fixed_dt_from(_, _, _, _, _)
area_fixed_dt_from(i, j, t, temps, set_temp) ==
    IF i > j THEN 0
    ELSE IF i = j THEN 2 * Abs(temps[i] - set_temp) * TimeStep
    ELSE LET mid == (i + j) \div 2
         IN  area_fixed_dt_from(i, mid, t, temps, set_temp)
             + area_fixed_dt_from(mid + 1, j, t, temps, set_temp)

calculate_area_between_temp_fixed_dt(t, temps, set_temp) ==
    area_fixed_dt_from(1, Len(t), t, temps, set_temp)

\* sum over i in range(1, len(time)) of |T[i] - set| * dt
calculate_area_between_temp(t, temps, set_temp) ==
    area_between_from(2, Len(t), t, temps, set_temp)

\* what the pair (i-1, i) adds to (overshoot, undershoot), lines 169-174;
\* avg_temp = (T[i] + T[i-1]) / 2 is kept doubled, as are the areas
area_metrics_term(i, t, temps, set_temp) ==
    LET dt == t[i] - t[i - 1]
        avg2 == temps[i] + temps[i - 1]
    IN  IF avg2 > 2 * set_temp THEN <<(avg2 - 2 * set_temp) * dt, 0>>
        ELSE IF avg2 < 2 * set_temp THEN <<0, (2 * set_temp - avg2) * dt>>
        ELSE <<0, 0>>

RECURSIVE area_metrics_from(_, _, _, _, _)
area_metrics_from(i, j, t, temps, set_temp) ==
    IF i > j THEN <<0, 0>>
    ELSE IF i = j THEN area_metrics_term(i, t, temps, set_temp)
    ELSE LET mid == (i + j) \div 2
             lo == area_metrics_from(i, mid, t, temps, set_temp)
             hi == area_metrics_from(mid + 1, j, t, temps, set_temp)
         IN  <<lo[1] + hi[1], lo[2] + hi[2]>>

\* faulty variant: accumulates the signed deviation into overshoot
calculate_area_metrics_signed(t, temps, set_temp) ==
    LET ou == area_metrics_from(2, Len(t), t, temps, set_temp)
    IN  <<ou[1] - ou[2], ou[2], ou[1]>>

\* (overshoot, undershoot, total_area)
calculate_area_metrics(t, temps, set_temp) ==
    LET ou == area_metrics_from(2, Len(t), t, temps, set_temp)
    IN  <<ou[1], ou[2], ou[1] + ou[2]>>

\* ------------------------------------------------------ shared pieces
\* the values of `for minute in np.arange(0, simulation_minutes, 0.1)`
minutes == arange(0, simulation_minutes, TimeStep)

NoLocals ==
    /\ time = <<>> /\ room_temperatures = <<>> /\ room_temperature = 0
    /\ heater_status = FALSE /\ idx = 0 /\ episode = 0 /\ state = 0
    /\ action = 0 /\ reward = 0 /\ integral_error = 0 /\ previous_error = 0
    /\ heater_output = <<>>

\* a function's locals vanish when it returns; the slots of the controller
\* state (heater_status, integral_error, previous_error) keep what the run
\* left in them until the next call initialises them (lines 67, 133-134)
DropLocals ==
    /\ time' = <<>> /\ room_temperatures' = <<>> /\ room_temperature' = 0
    /\ idx' = 0 /\ episode' = 0 /\ state' = 0
    /\ action' = 0 /\ reward' = 0 /\ heater_output' = <<>>
    /\ UNCHANGED <<heater_status, integral_error, previous_error>>

Return(algo, a) ==
    /\ returned' = Append(returned,
                          [algo |-> algo, time |-> time,
                           room_temperatures |-> room_temperatures,
                           area |-> a])
    /\ area' = a
    /\ pc' = "main"
    /\ DropLocals

\* ------------------------------------------------------------- On-Off
\* faulty variant: switches off as soon as the lower threshold is passed
on_off_decision_eager(temperature, status) ==
    IF temperature < thermostat_setting - thermostat_sensitivity THEN TRUE
    ELSE FALSE

\* faulty variant: once on, never switches off
on_off_decision_latched(temperature, status) ==
    IF temperature < thermostat_setting - thermostat_sensitivity THEN TRUE
    ELSE status

\* lines 72-75: the hysteresis latch
on_off_decision(temperature, status) ==
    IF temperature < thermostat_setting - thermostat_sensitivity THEN TRUE
    ELSE IF temperature > thermostat_setting + thermostat_sensitivity
        THEN FALSE
    ELSE status

\* faulty variant: applies the per-minute rates to a 0.1-minute step
heater_step_full_rate(temperature, on) ==
    IF on THEN temperature + heater_power
    ELSE temperature - heat_loss

\* lines 77-80 (and 95-98, 115-118): the process under a binary heater
heater_step(temperature, on) ==
    IF on THEN temperature + Times01(heater_power)
    ELSE temperature - Times01(heat_loss)

\* faulty variant: the heater keeps the status the previous run left
CallOnOff_keeps_status ==
    /\ pc = "main" /\ calls < MaxCalls /\ "On-Off" \in simulation_type
    /\ calls' = calls + 1
    /\ pc' = "on_off"
    /\ time' = <<>> /\ room_temperatures' = <<>>
    /\ room_temperature' = initial_room_temperature
    /\ idx' = 0
    /\ UNCHANGED <<config, q_table, heater_status, episode, state, action,
                   reward, integral_error, previous_error, heater_output,
                   returned, metrics, area>>

CallOnOff ==
    /\ pc = "main" /\ calls < MaxCalls /\ "On-Off" \in simulation_type
    /\ calls' = calls + 1
    /\ pc' = "on_off"
    /\ time' = <<>> /\ room_temperatures' = <<>>
    /\ room_temperature' = initial_room_temperature
    /\ heater_status' = FALSE
    /\ idx' = 0
    /\ UNCHANGED <<config, q_table, episode, state, action, reward,
                   integral_error, previous_error, heater_output,
                   returned, metrics, area>>

OnOffStep ==
    /\ pc = "on_off" /\ idx < Len(minutes)
    /\ LET minute == minutes[idx + 1]
           status == on_off_decision(room_temperature, heater_status)
           temp == heater_step(room_temperature, status)
       IN  /\ time' = Append(time, minute)
           /\ heater_status' = status
           /\ room_temperature' = temp
           /\ room_temperatures' = Append(room_temperatures, temp)
    /\ idx' = idx + 1
    /\ UNCHANGED <<config, q_table, pc, calls, episode, state, action, reward,
                   integral_error, previous_error, heater_output,
                   returned, metrics, area>>

OnOffReturn ==
    /\ pc = "on_off" /\ idx = Len(minutes)
    /\ Return("On-Off", calculate_area_between_temp(
                            time, room_temperatures, thermostat_setting))
    /\ UNCHANGED <<config, q_table, calls, metrics>>

\* --------------------------------------------------------- Q-Learning
\* faulty variant: bootstraps from the row of the state it left
td_update_same_row(q, s, a, r, s2) ==
    LET old == q[NpIndex(s)][a]
        target == r * QScale
                  + MulDiv(npmax(q[NpIndex(s)]), discount_factor, GainScale)
    IN  [q EXCEPT ![NpIndex(s)][a] =
             old + MulDiv(target - old, learning_rate, GainScale)]

\* line 103: q_table[state, action] += learning_rate * (reward
\*     + discount_factor * np.max(q_table[next_state, :])
\*     - q_table[state, action])
td_update(q, s, a, r, s2) ==
    LET old == q[NpIndex(s)][a]
        target == r * QScale
                  + MulDiv(npmax(q[NpIndex(s2)]), discount_factor, GainScale)
    IN  [q EXCEPT ![NpIndex(s)][a] =
             old + MulDiv(target - old, learning_rate, GainScale)]

\* line 88: the call; `for episode in range(episodes)` is about to start
CallQLearning ==
    /\ pc = "main" /\ calls < MaxCalls /\ "Q-Learning" \in simulation_type
    /\ Cardinality({i \in DOMAIN returned :
                        returned[i].algo = "Q-Learning"}) < MaxQRuns
    /\ calls' = calls + 1
    /\ pc' = "q_episode"
    /\ episode' = 0
    /\ UNCHANGED <<config, q_table, time, room_temperatures, room_temperature,
                   heater_status, idx, state, action, reward, integral_error,
                   previous_error, heater_output, returned, metrics, area>>

\* lines 90-92: an episode begins from the configured temperature
QEpisodeStart ==
    /\ pc = "q_episode" /\ episode < episodes
    /\ room_temperature' = initial_room_temperature
    /\ state' = get_state(initial_room_temperature)
    /\ idx' = 0
    /\ pc' = "q_train"
    /\ UNCHANGED <<config, q_table, calls, time, room_temperatures,
                   heater_status, episode, action, reward, integral_error,
                   previous_error, heater_output, returned, metrics, area>>

\* an IndexError leaves run_q_learning_simulation with nothing returned
RaiseIndexError ==
    /\ pc' = "IndexError"
    /\ UNCHANGED <<q_table, locals>>

\* lines 93-104: one training step
QTrainStep ==
    /\ pc = "q_train" /\ idx < Len(minutes)
    /\ \E explore \in BOOLEAN, choice \in Actions :
         /\ explore => exploration_rate > 0
         /\ ~explore => exploration_rate < GainScale
         /\ IF ~NpValid(state, num_states) THEN RaiseIndexError ELSE
            LET act == get_action(state, q_table, explore, choice)
                temp == heater_step(room_temperature, act = 1)
                next_state == get_state(temp)
                rew == get_reward(next_state, act, thermostat_setting)
            IN  IF ~(NpValid(act, num_actions)
                     /\ NpValid(next_state, num_states))
                THEN RaiseIndexError
                ELSE
                /\ action' = act
                /\ room_temperature' = temp
                /\ reward' = rew
                /\ q_table' = td_update(q_table, state, act, rew, next_state)
                /\ state' = next_state
                /\ idx' = idx + 1
                /\ UNCHANGED <<pc, time, room_temperatures, heater_status,
                               episode, integral_error, previous_error,
                               heater_output>>
    /\ UNCHANGED <<config, calls, returned, metrics, area>>

\* faulty variant: leaves the episode loop after the first episode
QEpisodeEnd_break ==
    /\ pc = "q_train" /\ idx = Len(minutes)
    /\ episode' = pymax(episodes, episode + 1)
    /\ pc' = "q_episode"
    /\ UNCHANGED <<config, q_table, calls, time, room_temperatures,
                   room_temperature, heater_status, idx, state, action,
                   reward, integral_error, previous_error, heater_output,
                   returned, metrics, area>>

\* the inner loop is exhausted: next value of range(episodes)
QEpisodeEnd ==
    /\ pc = "q_train" /\ idx = Len(minutes)
    /\ episode' = episode + 1
    /\ pc' = "q_episode"
    /\ UNCHANGED <<config, q_table, calls, time, room_temperatures,
                   room_temperature, heater_status, idx, state, action,
                   reward, integral_error, previous_error, heater_output,
                   returned, metrics, area>>

\* lines 107-111: training is over, the evaluation rollout begins
QEvalStart ==
    /\ pc = "q_episode" /\ episode >= episodes
    /\ time' = <<>> /\ room_temperatures' = <<>>
    /\ room_temperature' = initial_room_temperature
    /\ state' = get_state(initial_room_temperature)
    /\ idx' = 0
    /\ pc' = "q_eval"
    /\ UNCHANGED <<config, q_table, calls, heater_status, episode, action,
                   reward, integral_error, previous_error, heater_output,
                   returned, metrics, area>>

\* faulty variant: the rollout keeps learning from its own steps
QEvalStep_learning ==
    /\ pc = "q_eval" /\ idx < Len(minutes)
    /\ IF ~NpValid(state, num_states) THEN RaiseIndexError ELSE
       LET minute == minutes[idx + 1]
           act == argmax(q_table[NpIndex(state)])
           temp == heater_step(room_temperature, act = 1)
           next_state == get_state(temp)
           rew == get_reward(next_state, act, thermostat_setting)
       IN  /\ action' = act
           /\ room_temperature' = temp
           /\ state' = next_state
           /\ q_table' = td_update(q_table, state, act, rew, next_state)
           /\ time' = Append(time, minute)
           /\ room_temperatures' = Append(room_temperatures, temp)
           /\ idx' = idx + 1
           /\ UNCHANGED <<pc, heater_status, episode, reward,
                          integral_error, previous_error, heater_output>>
    /\ UNCHANGED <<config, calls, returned, metrics, area>>

\* lines 112-122: one step of the greedy rollout
QEvalStep ==
    /\ pc = "q_eval" /\ idx < Len(minutes)
    /\ IF ~NpValid(state, num_states) THEN RaiseIndexError ELSE
       LET minute == minutes[idx + 1]
           act == argmax(q_table[NpIndex(state)])
           temp == heater_step(room_temperature, act = 1)
       IN  /\ action' = act
           /\ room_temperature' = temp
           /\ state' = get_state(temp)
           /\ time' = Append(time, minute)
           /\ room_temperatures' = Append(room_temperatures, temp)
           /\ idx' = idx + 1
           /\ UNCHANGED <<q_table, pc, heater_status, episode, reward,
                          integral_error, previous_error, heater_output>>
    /\ UNCHANGED <<config, calls, returned, metrics, area>>

\* lines 124-125
QReturn ==
    /\ pc = "q_eval" /\ idx = Len(minutes)
    /\ Return("Q-Learning", calculate_area_between_temp(
                                time, room_temperatures, thermostat_setting))
    /\ UNCHANGED <<config, q_table, calls, metrics>>

\* ---------------------------------------------------------------- PID
\* faulty variant: clamps only from below
clamp01_open(x) == pymax(0, x)

\* line 148: max(0, min(1, pid_output)), 1 being TempScale ticks
clamp01(x) == pymax(0, pymin(TempScale, x))

\* faulty variant: the integral term is left out of the output
pid_controller_no_integral(temperature, integral, previous) ==
    LET error == thermostat_setting - temperature
        proportional_term == MulDiv(error, Kp, GainScale)
        derivative_term ==
            MulDiv((error - previous) * (TimeScale \div TimeStep), Kd,
                   GainScale)
    IN  <<proportional_term + derivative_term, integral + error, error>>

\* lines 140-147: (pid_output, integral_error, previous_error) after one step;
\* error * 0.1 in tenths of a tick is error itself
pid_controller(temperature, integral, previous) ==
    LET error == thermostat_setting - temperature
        proportional_term == MulDiv(error, Kp, GainScale)
        new_integral == integral + error
        integral_term == MulDiv(new_integral, Ki, 10 * GainScale)
        derivative_term ==
            MulDiv((error - previous) * (TimeScale \div TimeStep), Kd,
                   GainScale)
    IN  <<proportional_term + integral_term + derivative_term,
          new_integral, error>>

\* line 151: room_temperature += (heater_power * percent - heat_loss) * 0.1
pid_step(temperature, percent) ==
    temperature
    + Times01(MulDiv(percent, heater_power, TempScale) - heat_loss)

CallPID ==
    /\ pc = "main" /\ calls < MaxCalls /\ "PID" \in simulation_type
    /\ calls' = calls + 1
    /\ pc' = "pid"
    /\ time' = <<>> /\ room_temperatures' = <<>> /\ heater_output' = <<>>
    /\ integral_error' = 0 /\ previous_error' = 0
    /\ room_temperature' = initial_room_temperature
    /\ idx' = 0
    /\ UNCHANGED <<config, q_table, heater_status, episode, state, action,
                   reward, returned, metrics, area>>

PIDStep ==
    /\ pc = "pid" /\ idx < Len(minutes)
    /\ LET minute == minutes[idx + 1]
           c == pid_controller(room_temperature, integral_error,
                               previous_error)
           heater_output_percent == clamp01(c[1])
           temp == pid_step(room_temperature, heater_output_percent)
       IN  /\ time' = Append(time, minute)
           /\ integral_error' = c[2]
           /\ previous_error' = c[3]
           /\ heater_output' = Append(heater_output, heater_output_percent)
           /\ room_temperature' = temp
           /\ room_temperatures' = Append(room_temperatures, temp)
    /\ idx' = idx + 1
    /\ UNCHANGED <<config, q_table, pc, calls, heater_status, episode, state,
                   action, reward, returned, metrics, area>>

PIDReturn ==
    /\ pc = "pid" /\ idx = Len(minutes)
    /\ Return("PID", calculate_area_between_temp(
                         time, room_temperatures, thermostat_setting))
    /\ UNCHANGED <<config, q_table, calls, metrics>>

\* ----------------------------------------------------------- main app
\* line 226: the metrics of every result collected so far
ShowMetrics ==
    /\ pc = "main"
    /\ metrics' = [i \in 1..Len(returned) |->
                     calculate_area_metrics(returned[i].time,
                                            returned[i].room_temperatures,
                                            thermostat_setting)]
    /\ pc' = "done"
    /\ UNCHANGED <<config, q_table, calls, locals, returned, area>>

\* ------------------------------------------------- pure-function drivers
\* get_state applied to the temperature held in room_temperature
ApplyGetState ==
    /\ pc = "get_state_in"
    /\ state' = get_state(room_temperature)
    /\ pc' = "get_state_out"
    /\ UNCHANGED <<config, q_table, calls, time, room_temperatures,
                   room_temperature, heater_status, idx, episode, action,
                   reward, integral_error, previous_error, heater_output,
                   returned, metrics, area>>

\* both area functions applied to the trajectory held in time and
\* room_temperatures
ApplyMetrics ==
    /\ pc = "metrics_in"
    /\ metrics' = <<calculate_area_metrics(time, room_temperatures,
                                           thermostat_setting)>>
    /\ area' = calculate_area_between_temp(time, room_temperatures,
                                           thermostat_setting)
    /\ pc' = "metrics_out"
    /\ UNCHANGED <<config, q_table, calls, locals, returned>>

\* ------------------------------------------------------ initial states
\* the sidebar defaults (lines 12-31)
DefaultGains == /\ Kp = 500 /\ Ki = 100 /\ Kd = 10
StrongGains == /\ Kp = 2000 /\ Ki = 500 /\ Kd = 200

Fresh ==
    /\ q_table = zeros
    /\ pc = "main" /\ calls = 0
    /\ NoLocals
    /\ returned = <<>> /\ metrics = <<>> /\ area = 0

\* On-Off and PID over whole minutes
InitLong ==
    /\ initial_room_temperature \in {Deg(19), Deg(20), Deg(21)}
    /\ thermostat_setting = Deg(20)
    /\ heater_power \in {3000, 5000}
    /\ heat_loss \in {1000, 2000}
    /\ simulation_minutes \in {m * TimeScale : m \in 1..MaxMinutes}
    /\ thermostat_sensitivity \in {1000, 5000}
    /\ episodes = 1
    /\ DefaultGains \/ StrongGains
    /\ simulation_type \in {{"On-Off"}, {"PID"}, {"On-Off", "PID"}}

\* PID started 1000 degrees below the setting
InitLargeError ==
    /\ thermostat_setting = Deg(20)
    /\ initial_room_temperature = thermostat_setting - Deg(1000)
    /\ heater_power = 3000
    /\ heat_loss = 1000
    /\ simulation_minutes \in {n * TimeStep : n \in 1..MaxTenths}
    /\ thermostat_sensitivity = 5000
    /\ episodes = 1
    /\ DefaultGains \/ StrongGains
    /\ simulation_type = {"PID"}

\* Q-Learning: one episode of a few timesteps, or a few episodes of one
\* timestep, or up to two timesteps with the other strategies selected too;
\* the runs from the edges of the bucket range last at most two timesteps
InitQ ==
    /\ initial_room_temperature \in {Deg(10), Deg(20), Deg(21), Deg(30)}
    /\ thermostat_setting = Deg(20)
    /\ heater_power = 3000
    /\ heat_loss = 1000
    /\ simulation_minutes \in {n * TimeStep : n \in 1..MaxTenths}
    /\ thermostat_sensitivity = 5000
    /\ episodes \in 1..MaxEpisodes
    /\ episodes = 1 \/ simulation_minutes = TimeStep
    /\ DefaultGains
    /\ simulation_type \in {{"Q-Learning"}, Strategies}
    /\ simulation_type = {"Q-Learning"} \/ simulation_minutes <= 2 * TimeStep
    /\ simulation_minutes <= 2 * TimeStep
       \/ initial_room_temperature \in {Deg(20), Deg(21)}

\* the sidebar's default values (lines 12-18, 29-31): 19 degC, setting 20,
\* heater 0.3, loss 0.1, 60 minutes, band 0.5, gains 0.5 / 0.1 / 0.01
InitDefaults ==
    /\ initial_room_temperature = Deg(19)
    /\ thermostat_setting = Deg(20)
    /\ heater_power = 3000
    /\ heat_loss = 1000
    /\ simulation_minutes = DefaultMinutes * TimeScale
    /\ thermostat_sensitivity = 5000
    /\ episodes = 1
    /\ DefaultGains
    /\ simulation_type \in {{"On-Off"}, {"PID"}}

Init == Fresh /\ (InitLong \/ InitLargeError \/ InitQ \/ InitDefaults)

Next ==
    \/ CallOnOff \/ OnOffStep \/ OnOffReturn
    \/ CallQLearning \/ QEpisodeStart \/ QTrainStep \/ QEpisodeEnd
    \/ QEvalStart \/ QEvalStep \/ QReturn
    \/ CallPID \/ PIDStep \/ PIDReturn
    \/ ShowMetrics

Spec == Init /\ [][Next]_vars

\* the statements of the three run_* functions (lines 63-155)
RunStep ==
    \/ OnOffStep \/ OnOffReturn
    \/ QEpisodeStart \/ QTrainStep \/ QEpisodeEnd
    \/ QEvalStart \/ QEvalStep \/ QReturn
    \/ PIDStep \/ PIDReturn


\* get_state on sampled temperatures, from 8 degC upward in quarter degrees
\* and one tick to either side of each
TempSamples ==
    {Deg(8) + k * (HalfDegree \div 2) + d : k \in 0..MaxSamples,
                                            d \in {-1, 0, 1}}

InitGetStateAt ==
    /\ q_table = zeros /\ calls = 0
    /\ time = <<>> /\ room_temperatures = <<>>
    /\ room_temperature \in TempSamples
    /\ heater_status = FALSE /\ idx = 0 /\ episode = 0 /\ state = 0
    /\ action = 0 /\ reward = 0 /\ integral_error = 0 /\ previous_error = 0
    /\ heater_output = <<>>
    /\ returned = <<>> /\ metrics = <<>> /\ area = 0
    /\ pc = "get_state_in"
    /\ initial_room_temperature = Deg(19)
    /\ thermostat_setting = Deg(20)
    /\ heater_power = 3000
    /\ heat_loss = 1000
    /\ simulation_minutes = TimeScale
    /\ thermostat_sensitivity = 5000
    /\ episodes = 1
    /\ DefaultGains
    /\ simulation_type = {"Q-Learning"}

SpecGetState == InitGetStateAt /\ [][ApplyGetState]_vars

\* the area functions on short trajectories around the setting
MetricTemps == {Deg(20) - HalfDegree, Deg(20) - 1, Deg(20), Deg(20) + 3000}

InitMetrics ==
    /\ q_table = zeros /\ calls = 0
    /\ \E n \in 0..MaxLen :
         /\ time = arange(0, n * TimeStep, TimeStep)
         /\ room_temperatures \in [1..n -> MetricTemps]
    /\ room_temperature = 0
    /\ heater_status = FALSE /\ idx = 0 /\ episode = 0 /\ state = 0
    /\ action = 0 /\ reward = 0 /\ integral_error = 0 /\ previous_error = 0
    /\ heater_output = <<>>
    /\ returned = <<>> /\ metrics = <<>> /\ area = 0
    /\ pc = "metrics_in"
    /\ initial_room_temperature = Deg(19)
    /\ thermostat_setting = Deg(20)
    /\ heater_power = 3000
    /\ heat_loss = 1000
    /\ simulation_minutes = TimeScale
    /\ thermostat_sensitivity = 5000
    /\ episodes = 1
    /\ DefaultGains
    /\ simulation_type = {}

SpecMetrics == InitMetrics /\ [][ApplyMetrics]_vars

\* =============================================================== claims

\* temperature strictly inside (setpoint - band, setpoint + band)
InDeadBand(temperature) ==
    /\ thermostat_setting - thermostat_sensitivity < temperature
    /\ temperature < thermostat_setting + thermostat_sensitivity

\* C1: in an On-Off step whose controller reads a temperature strictly
\* inside the dead-band, heater_status after the decision equals
\* heater_status before it.
C1_NoSwitchInDeadBand ==
    [][(pc = "on_off" /\ idx' = idx + 1 /\ InDeadBand(room_temperature))
         => heater_status' = heater_status]_vars

\* the heater, switched on below the band, was held on by a step that read
\* a temperature strictly inside the band
C1_Witness ==
    /\ pc = "on_off" /\ idx >= 3 /\ heater_status
    /\ room_temperatures[idx - 1] > room_temperatures[idx - 2]
    /\ InDeadBand(room_temperatures[idx - 1])
    /\ room_temperatures[idx] > room_temperatures[idx - 1]

\* C2: every actuation recorded by a PID run lies in [0, 1], and the
\* temperature change it produced is that of an actuation in [0, 1].
C2_PIDActuationClamped ==
    pc = "pid" =>
        \A i \in 1..Len(heater_output) :
            /\ 0 <= heater_output[i] /\ heater_output[i] <= TempScale
            /\ LET before == IF i = 1 THEN initial_room_temperature
                             ELSE room_temperatures[i - 1]
                   change == room_temperatures[i] - before
               IN  /\ -Times01(heat_loss) <= change
                   /\ change <= Times01(heater_power) - Times01(heat_loss)

\* a PID run started 1000 degrees below the setting has applied a saturated
\* actuation
C2_Witness ==
    /\ pc = "pid" /\ Len(heater_output) >= 1
    /\ thermostat_setting - initial_room_temperature = Deg(1000)
    /\ previous_error >= Deg(999)
    /\ heater_output[Len(heater_output)] = TempScale

\* floor toward negative infinity, then clamp
floor_bucket(temperature) ==
    LET f == (temperature - Deg(10)) \div HalfDegree
    IN  IF f < 0 THEN 0 ELSE IF f > 40 THEN 40 ELSE f

\* C3: get_state(t) = clamp(floor((t - 10) / 0.5), 0, 40) for every
\* temperature; below 10 the bucket is 0, never negative.
C3_GetStateIsClampedFloor ==
    pc = "get_state_out" =>
        /\ state = floor_bucket(room_temperature)
        /\ state >= 0
        /\ room_temperature < Deg(10) => state = 0

\* get_state was applied to a temperature more than a bucket below 10
C3_Witness ==
    /\ pc = "get_state_out"
    /\ room_temperature < Deg(9)
    /\ state = 0

\* C4: get_state is monotonic: t1 <= t2 implies
\* get_state(t1) <= get_state(t2).
C4_GetStateMonotonic ==
    pc = "get_state_out" =>
        \A t \in TempSamples :
            /\ t <= room_temperature => get_state(t) <= state
            /\ room_temperature <= t => state <= get_state(t)

\* a temperature in an inner bucket, with sampled temperatures in strictly
\* lower and strictly higher buckets
C4_Witness ==
    /\ pc = "get_state_out"
    /\ state = 20
    /\ \E t1, t2 \in TempSamples :
         /\ t1 < room_temperature /\ room_temperature < t2
         /\ get_state(t1) < state /\ state < get_state(t2)

QPhases == {"q_episode", "q_train", "q_eval"}

\* C5: throughout training and the evaluation rollout every index used on
\* q_table is a state in [0, 40] and an action in {0, 1}, no access raises,
\* and the table keeps its 41 x 2 shape.
C5_QTableIndicesInRange ==
    /\ pc # "IndexError"
    /\ DOMAIN q_table = 0..40
    /\ \A s \in DOMAIN q_table : DOMAIN q_table[s] = 0..1
    /\ pc \in QPhases => state \in 0..40 /\ action \in 0..1
    /\ pc \in {"q_train", "q_eval"} => state = get_state(room_temperature)

\* a training step has driven the temperature out of 10..30 and has written
\* the boundary bucket's row
C5_Witness ==
    /\ pc = "q_train" /\ idx >= 1
    /\ \/ room_temperature < Deg(10) /\ state = 0
       \/ room_temperature > Deg(30) /\ state = 40
    /\ q_table[state][action] # 0

C7_MetricsNonNegativeAndAdditive ==
    pc = "metrics_out" =>
        LET m == metrics[1]
        IN  /\ m[1] >= 0 /\ m[2] >= 0
            /\ m[3] = m[1] + m[2]
            /\ (\A i \in 1..Len(room_temperatures) :
                    room_temperatures[i] = thermostat_setting)
               => m = <<0, 0, 0>>

\* the metrics of a trajectory that spends time on both sides of the
\* setpoint
C7_Witness ==
    /\ pc = "metrics_out"
    /\ metrics[1][1] > 0 /\ metrics[1][2] > 0

\* C8: a trajectory of length 0 or 1 gives (0, 0, 0) and area 0.
C8_ShortTrajectoryIsZero ==
    (pc = "metrics_out" /\ Len(time) <= 1) =>
        /\ metrics[1] = <<0, 0, 0>>
        /\ area = 0

\* both functions were applied to a single sample away from the setpoint
C8_Witness ==
    /\ pc = "metrics_out"
    /\ Len(time) = 1
    /\ room_temperatures[1] # thermostat_setting

\* C9: when a call of run_q_learning_simulation is about to train its first
\* episode, q_table is all zeros.
C9_TrainingStartsFromZeros ==
    (pc = "q_episode" /\ episode = 0) => q_table = zeros

\* the reward rule of the claim, for a temperature and an action
reward_rule(temperature, act) ==
    IF Abs(temperature - thermostat_setting) <= HalfDegree THEN 10
    ELSE IF act = 1 /\ temperature > thermostat_setting + HalfDegree THEN -10
    ELSE IF act = 0 /\ temperature < thermostat_setting - HalfDegree THEN -5
    ELSE -1

\* C10 as claimed: the reward of a training step is the rule applied to the
\* resulting room temperature T' and the action.
C10_RewardFromTemperature ==
    (pc = "q_train" /\ idx >= 1) =>
        reward = reward_rule(room_temperature, action)

\* C10 as amended: the reward of a training step is the rule applied to the
\* lower edge 10 + 0.5 * get_state(T') of the resulting bucket and the
\* action.
C10_RewardFromBucket ==
    (pc = "q_train" /\ idx >= 1) =>
        reward = reward_rule(Deg(10) + get_state(room_temperature) * HalfDegree,
                             action)

\* a training step ended more than 0.5 above the setpoint, off a bucket
\* boundary, and was rewarded as within range
C10_Witness ==
    /\ pc = "q_train" /\ idx >= 1
    /\ room_temperature > thermostat_setting + HalfDegree
    /\ room_temperature % HalfDegree # 0
    /\ reward = 10

\* the action with the higher value in row s of q, action 0 on a tie
greedy_action(q, s) == IF q[s][1] > q[s][0] THEN 1 ELSE 0

\* temps is the rollout of n steps from the initial temperature in which
\* every step takes the greedy action of the bucket it starts in
IsGreedyRollout(q, temps, n) ==
    /\ Len(temps) = n
    /\ \A j \in 1..n :
         LET before == IF j = 1 THEN initial_room_temperature
                       ELSE temps[j - 1]
         IN  temps[j] = IF greedy_action(q, get_state(before)) = 1
                        THEN before + Times01(heater_power)
                        ELSE before - Times01(heat_loss)

\* C11: the trajectory run_q_learning_simulation returns is one rollout of
\* the whole horizon from the initial temperature, every action being the
\* greedy one of the trained table (action 0 on a tie).
C11_ReportedRolloutIsGreedy ==
    [][(pc = "q_eval" /\ pc' = "main") =>
           LET r == returned'[Len(returned')]
           IN  /\ r.algo = "Q-Learning"
               /\ Len(r.time) = simulation_minutes \div TimeStep
               /\ IsGreedyRollout(q_table, r.room_temperatures, Len(r.time))
      ]_vars

\* a returned Q-Learning rollout of several steps whose first action was to
\* heat, which only a trained row prefers
C11_Witness ==
    /\ pc = "main" /\ returned # <<>>
    /\ LET r == returned[Len(returned)]
       IN  /\ r.algo = "Q-Learning"
           /\ Len(r.room_temperatures) >= 2
           /\ r.room_temperatures[1] > initial_room_temperature
           /\ q_table[get_state(initial_room_temperature)][1]
                > q_table[get_state(initial_room_temperature)][0]

\* the configuration of end-to-end scenarios A and B
IsScenario ==
    /\ initial_room_temperature = Deg(19) /\ thermostat_setting = Deg(20)
    /\ heater_power = 3000 /\ heat_loss = 1000
    /\ simulation_minutes = 60 * TimeScale
    /\ thermostat_sensitivity = 5000
    /\ Kp = 500 /\ Ki = 100 /\ Kd = 10

\* temperature in the closed band [setpoint - band, setpoint + band]
InBand(temperature) ==
    /\ thermostat_setting - thermostat_sensitivity <= temperature
    /\ temperature <= thermostat_setting + thermostat_sensitivity

\* the band widened by one cooling step below and one heating step above
InWidenedBand(temperature) ==
    /\ thermostat_setting - thermostat_sensitivity - Times01(heat_loss)
         <= temperature
    /\ temperature
         <= thermostat_setting + thermostat_sensitivity + Times01(heater_power)

\* some sample before the latest one was inside the band
EnteredBandEarlier ==
    \E j \in 1..(Len(room_temperatures) - 1) : InBand(room_temperatures[j])

\* sample j is higher than the temperature before it
Rose(j) ==
    room_temperatures[j] > (IF j = 1 THEN initial_room_temperature
                            ELSE room_temperatures[j - 1])

\* the longest a phase can last: the widened band crossed at the slower rate
LongestPhase ==
    (2 * thermostat_sensitivity + Times01(heater_power) + Times01(heat_loss))
        \div pymin(Times01(heater_power), Times01(heat_loss))

\* C12 as claimed: in scenario A, once a sample is in [19.5, 20.5] every
\* later sample is in [19.5, 20.5].
C12_StaysInBand ==
    (pc = "on_off" /\ IsScenario /\ EnteredBandEarlier)
        => InBand(room_temperatures[Len(room_temperatures)])

\* C12 as amended: in scenario A, once a sample is in [19.5, 20.5] every
\* later sample is in [19.49, 20.53], and heating and cooling keep
\* alternating: the latest LongestPhase + 1 steps never all go the same way.
C12_StaysInWidenedBandAndAlternates ==
    (pc = "on_off" /\ IsScenario) =>
        LET n == Len(room_temperatures)
        IN  /\ EnteredBandEarlier => InWidenedBand(room_temperatures[n])
            /\ n > LongestPhase =>
                   \E j \in (n - LongestPhase)..n : Rose(j) # Rose(n)

\* scenario A has run to the horizon and has left [19.5, 20.5] on both
\* sides after entering it
C12_Witness ==
    /\ pc = "on_off" /\ IsScenario
    /\ idx = simulation_minutes \div TimeStep
    /\ \E i \in 1..Len(room_temperatures) :
         /\ InBand(room_temperatures[i])
         /\ \E j \in (i + 1)..Len(room_temperatures) :
              room_temperatures[j] > thermostat_setting + thermostat_sensitivity
         /\ \E k \in (i + 1)..Len(room_temperatures) :
              room_temperatures[k] < thermostat_setting - thermostat_sensitivity

\* C20: in any On-Off run, once a sample is inside
\* [setpoint - band, setpoint + band], every later sample is inside
\* [setpoint - band - heat_loss * 0.1, setpoint + band + heater_power * 0.1].
C20_OvershootAtMostOneStep ==
    (pc = "on_off" /\ EnteredBandEarlier)
        => InWidenedBand(room_temperatures[Len(room_temperatures)])

\* an On-Off run that entered the band has since overshot it, by no more
\* than one step
C20_Witness ==
    /\ pc = "on_off" /\ EnteredBandEarlier
    /\ ~InBand(room_temperatures[Len(room_temperatures)])
    /\ InWidenedBand(room_temperatures[Len(room_temperatures)])

\* |temperature - setpoint| <= 0.5
WithinHalfDegree(temperature) ==
    /\ thermostat_setting - temperature <= Deg(1) \div 2
    /\ temperature - thermostat_setting <= Deg(1) \div 2

\* C13: in scenario B the PID run converges before the horizon ends: when
\* the loop is over there is a step before the last one from which every
\* remaining sample, the final one included, is within 0.5 of the setpoint.
C13_PIDConverges ==
    (pc = "pid" /\ IsScenario /\ idx = Len(minutes)) =>
        LET n == Len(room_temperatures)
        IN  \E k \in 1..(n - 1) :
                \A j \in k..n : WithinHalfDegree(room_temperatures[j])

\* scenario B has run to the horizon after starting more than 0.5 below the
\* setpoint, so the run had to travel to converge
C13_Witness ==
    /\ pc = "pid" /\ IsScenario /\ idx = Len(minutes)
    /\ Len(room_temperatures) = simulation_minutes \div TimeStep
    /\ ~WithinHalfDegree(room_temperatures[1])
    /\ WithinHalfDegree(room_temperatures[Len(room_temperatures)])

\* a strategy function is executing
Running == pc \in {"on_off", "q_episode", "q_train", "q_eval", "pid"}

\* loop iterations a running strategy still owes before its return: the
\* rest of the current loop, and for Q-Learning the later training episodes
\* and the evaluation rollout
RemainingSteps ==
    LET n == simulation_minutes \div TimeStep
    IN  CASE pc \in {"on_off", "pid", "q_eval"} -> n - idx
          [] pc = "q_train" -> (episodes - episode) * n - idx + n
          [] pc = "q_episode" -> (episodes - episode) * n + n
          [] OTHER -> 0

\* C14: every strategy run terminates after a number of steps fixed by the
\* config. A call owes horizon / 0.1 iterations (Q-Learning: that many for
\* each episode and for the rollout); a running function can always take
\* its next step; every iteration pays exactly one and advances the loop
\* index by one, the loop headers pay none, the function returns exactly
\* when nothing is owed and returns one sample per iteration, and no run
\* ends in an exception. What is owed is a natural number that every
\* iteration lowers, so the return is reached.
C14_RunsTerminate ==
    /\ [](Running => ENABLED RunStep)
    /\ [][/\ (pc = "main" /\ Running') =>
              RemainingSteps' =
                  (simulation_minutes \div TimeStep)
                  * (IF pc' = "q_episode" THEN episodes + 1 ELSE 1)
       /\ Running =>
            /\ pc' # "IndexError"
            /\ RemainingSteps >= 0
            /\ (pc' = "main") = (RemainingSteps = 0)
            /\ pc' = "main" =>
                   Len(returned'[Len(returned')].time)
                       = simulation_minutes \div TimeStep
            /\ (pc' = pc) =>
                   /\ idx' = idx + 1
                   /\ RemainingSteps' = RemainingSteps - 1
            /\ (pc' # pc /\ pc' # "main") =>
                   RemainingSteps' = RemainingSteps]_vars

\* a Q-Learning run of more than one episode has returned
C14_Witness ==
    /\ pc = "main" /\ returned # <<>> /\ episodes > 1
    /\ returned[Len(returned)].algo = "Q-Learning"
    /\ Len(returned[Len(returned)].time) = simulation_minutes \div TimeStep

\* the temperature before the latest sample of a running loop
TemperatureBefore ==
    IF Len(room_temperatures) = 1 THEN initial_room_temperature
    ELSE room_temperatures[Len(room_temperatures) - 1]

\* C15: a PID step with actuation fraction 1 yields the temperature an
\* On-Off or Q-Learning step with the heater on yields from the same
\* temperature, and a PID step with fraction 0 the one a step with the
\* heater off yields.
C15_SameProcessModel ==
    (pc = "pid" /\ heater_output # <<>>) =>
        LET percent == heater_output[Len(heater_output)]
        IN  /\ percent = TempScale =>
                room_temperature = heater_step(TemperatureBefore, TRUE)
            /\ percent = 0 =>
                room_temperature = heater_step(TemperatureBefore, FALSE)

\* Q[s,a] + alpha * (reward + gamma * max(Q[s',0], Q[s',1]) - Q[s,a])
td_target(q, s, a, r, s2) ==
    q[s][a]
    + MulDiv(r * QScale
             + MulDiv(pymax(q[s2][0], q[s2][1]), discount_factor, GainScale)
             - q[s][a],
             learning_rate, GainScale)

\* C16: a training step changes exactly one entry of the table: with s the
\* bucket before the action, a the chosen action and s' the bucket after the
\* process step, Q[s,a] becomes Q[s,a] + alpha * (reward + gamma *
\* max(Q[s',0], Q[s',1]) - Q[s,a]) and every other entry keeps its value;
\* an episode starts from the configured initial temperature and with the
\* table the previous episode left.
C16_OneEntryPerTrainingStep ==
    [][/\ (pc = "q_train" /\ pc' = "q_train") =>
              /\ state = get_state(room_temperature)
              /\ state' = get_state(room_temperature')
              /\ \A s \in States : \A a \in Actions :
                     q_table'[s][a] =
                         IF s = state /\ a = action'
                         THEN td_target(q_table, state, action', reward',
                                        state')
                         ELSE q_table[s][a]
       /\ (pc = "q_episode" \/ pc' = "q_episode") => q_table' = q_table
       /\ (pc = "q_episode" /\ pc' = "q_train") =>
              /\ room_temperature' = initial_room_temperature
              /\ state' = get_state(initial_room_temperature)
              /\ idx' = 0]_vars

\* a second episode is under way on a table the first one has written,
\* and has itself moved to another bucket
C16_Witness ==
    /\ pc = "q_train" /\ episode >= 1 /\ idx >= 1
    /\ q_table # zeros
    /\ state # get_state(initial_room_temperature)

\* C17: controller state does not leak between runs: every On-Off run
\* starts with the heater off, every PID run with integral error 0 and
\* previous error 0, and any two On-Off runs (any two PID runs) of one
\* config return identical results, whatever ran before or between them.
C17_NoLeakBetweenRuns ==
    /\ (pc = "on_off" /\ idx = 0) => heater_status = FALSE
    /\ (pc = "pid" /\ idx = 0) =>
           (integral_error = 0 /\ previous_error = 0)
    /\ \A i, j \in DOMAIN returned :
           (returned[i].algo = returned[j].algo
            /\ returned[i].algo \in {"On-Off", "PID"})
               => returned[i] = returned[j]

\* an On-Off run that ended heating inside the band, then a run of another
\* strategy, then a second On-Off run
C17_Witness ==
    /\ pc = "main" /\ Len(returned) = 3
    /\ returned[1].algo = "On-Off" /\ returned[2].algo # "On-Off"
    /\ returned[3].algo = "On-Off"
    /\ LET T == returned[1].room_temperatures
       IN  /\ Len(T) >= 2
           /\ T[Len(T)] > T[Len(T) - 1]
           /\ InBand(T[Len(T)])
           /\ InBand(initial_room_temperature)

\* C18 as claimed: the area calculate_area_between_temp returns equals the
\* total area calculate_area_metrics returns for the same trajectory.
C18_AreasAgree ==
    pc = "metrics_out" => area = metrics[1][3]

\* sum over the pairs 2..i of |T[i] - T[i-1]| * dt, doubled like the areas
RECURSIVE variation(_, _, _)
variation(i, t, temps) ==
    IF i < 2 THEN 0
    ELSE variation(i - 1, t, temps)
         + Abs(temps[i] - temps[i - 1]) * (t[i] - t[i - 1])

\* C18 as amended: the total of calculate_area_metrics is overshoot +
\* undershoot; the area of calculate_area_between_temp weighs each pair by
\* its later sample instead of the pair's average, so the two differ by at
\* most half the sum of |T[i] - T[i-1]| * dt and agree on a trajectory
\* whose samples are all equal.
C18_AreasWithinHalfVariation ==
    pc = "metrics_out" =>
        /\ metrics[1][3] = metrics[1][1] + metrics[1][2]
        /\ Abs(area - metrics[1][3])
               <= variation(Len(time), time, room_temperatures)

\* the two functions return different positive areas for one trajectory
C18_Witness ==
    /\ pc = "metrics_out"
    /\ Len(time) >= 2
    /\ area # metrics[1][3]
    /\ area > 0 /\ metrics[1][3] > 0

\* C19: the evaluation rollout only reads the table: from the end of the
\* last training episode to the return of run_q_learning_simulation no
\* entry of q_table changes.
C19_RolloutOnlyReadsTable ==
    [][((pc = "q_episode" /\ episode >= episodes) \/ pc = "q_eval")
           => q_table' = q_table]_vars

\* a rollout of several steps has reached its end on a trained table
C19_Witness ==
    /\ pc = "q_eval"
    /\ idx = Len(minutes) /\ idx >= 2
    /\ q_table # zeros

====
